---- MODULE Spec2Model ----
(***************************************************************************)
(* Model of questcamera_jni.cpp: the three callback globals, their         *)
(* setters, the frame and error delivery entry points and the module       *)
(* load/unload hooks.                                                      *)
(*                                                                         *)
(* Memory model: the callback globals are plain (non-atomic) pointers.     *)
(* Each read or write of one of them is one atomic step (an aligned        *)
(* pointer-sized access on the arm64 target is single-copy atomic), and    *)
(* steps of different threads interleave freely.  JNI array access is      *)
(* local to the calling thread, so the four Get calls of a delivery are    *)
(* one step and the four Release calls are one step.                       *)
(***************************************************************************)
EXTENDS Integers, Sequences, FiniteSets, TLC

VARIABLES
    g_leftFrameCallback,   \* static FrameCallback, 0 is nullptr
    g_rightFrameCallback,  \* static FrameCallback
    g_errorCallback,       \* static ErrorCallback
    g_jvm,                 \* static JavaVM*
    pc,                    \* per thread: position inside a delivery entry point
    call,                  \* per thread: the delivery call in progress (or the last one)
    held,                  \* per thread: arrays/strings obtained by the call and not released
    invocations,           \* sequence of callback invocations, in the order made
    lastSet,               \* per channel: the jlong passed to the last setter call
    replaced,              \* per channel: the address the last setter call overwrote with
                           \* a different address, nullptr if it overwrote none
    nextEvent,             \* number of the next delivery call
    sets,                  \* number of setter calls made
    lifecycle,             \* "initial", "loaded" or "unloaded"
    crashed,               \* the process jumped through a null function pointer and died
    releases,              \* per thread: the Release calls of the call, in order, with their mode
    relay                  \* the last Command Relay call: what it returned and left behind

vars == <<g_leftFrameCallback, g_rightFrameCallback, g_errorCallback, g_jvm,
          pc, call, held, invocations, lastSet, replaced, nextEvent, sets, lifecycle, crashed,
          releases, relay>>

\* ---------------------------------------------------------------- bounds
MaxEvents == 2
MaxSets == 2

\* ------------------------------------------------------------- constants
nullptr == 0

Threads == {"capture1", "capture2"}
Channels == {"left", "right", "error"}
Addresses == {1, 2}
JLongs == {nullptr} \cup Addresses
JavaVMs == {1}

FrameArrays == {"frameData", "intrinsics", "distortion", "pose"}
StringHandles == {"errorMessage"}

\* Outcomes of the four Get calls: all arrays obtained, exactly one refused,
\* or all refused.
FrameAvail == {FrameArrays, {}} \cup {FrameArrays \ {a} : a \in FrameArrays}

\* The frame of the specification's first scenario.
FrameInputs ==
    { [frameData |-> <<1, 2, 3, 4>>, width |-> 2, height |-> 2, timestamp |-> 1000,
       intrinsics |-> <<1, 0, 0, 1>>, distortion |-> <<0, 0, 0, 0, 0>>,
       pose |-> <<0, 0, 0, 0, 0, 0, 1>>] }

ErrorInputs == { [errorMessage |-> "sensor timeout"], [errorMessage |-> "camera disconnected"] }

\* ------------------------------------------------------ registry helpers
\* The jlong handed to a setter becomes the stored pointer; on the 64-bit
\* target both are 64 bits wide, so every JLongs value is kept as is.
reinterpret_cast(callback) == callback

\* Reading a channel's global.
resolve(channel) ==
    CASE channel = "left" -> g_leftFrameCallback
      [] channel = "right" -> g_rightFrameCallback
      [] channel = "error" -> g_errorCallback

GetArrayLength(array) == Len(array)

\* Natives are bound only while the library is loaded, and nothing runs
\* after the process has died.
Callable == lifecycle = "loaded" /\ ~crashed

NoCall ==
    [entry |-> "none", event |-> 0, input |-> <<>>, outcome |-> "none",
     regDuring |-> FALSE, lastAtEntry |-> nullptr, replacedAtEntry |-> nullptr,
     afterFailedCommand |-> FALSE]

\* What is remembered of a call once it has returned.
Returned(c, outcome) ==
    [entry |-> c.entry, event |-> c.event, input |-> <<>>, outcome |-> outcome,
     regDuring |-> FALSE, lastAtEntry |-> nullptr, replacedAtEntry |-> nullptr,
     afterFailedCommand |-> FALSE]

\* The last Command Relay call did not carry out its operation, and the
\* engine thread has not yet moved on from it.
RelayFailed == relay.returns # "nothing" /\ (~relay.invoked \/ relay.threw)

\* A call that has just made its null check, having read `seen` from the global.
\* It notes whether it follows a failed command.
NewCall(entry, input, seen) ==
    IF seen = nullptr
    THEN Returned([entry |-> entry, event |-> nextEvent], "skipped")
    ELSE [entry |-> entry, event |-> nextEvent, input |-> input, outcome |-> "running",
          regDuring |-> FALSE, lastAtEntry |-> lastSet[entry],
          replacedAtEntry |-> replaced[entry],
          afterFailedCommand |-> RelayFailed]

\* Bookkeeping shared by the three setters: remember what was registered,
\* what it replaced, and mark the deliveries the call overlaps.
NoteSet(channel, callback) ==
    /\ lastSet' = [lastSet EXCEPT ![channel] = callback]
    /\ replaced' = [replaced EXCEPT ![channel] =
                       IF callback # nullptr /\ lastSet[channel] # callback
                       THEN lastSet[channel] ELSE nullptr]
    /\ call' = [t \in Threads |->
                   IF pc[t] # "idle" /\ call[t].entry = channel
                   THEN [call[t] EXCEPT !.regDuring = TRUE]
                   ELSE call[t]]
    /\ sets' = sets + 1

\* ------------------------------------------------------ dispatch helpers
\* The release mode every Release call of the file passes.
JNI_ABORT == 2

\* Variant: the releases copy the buffers back (mode 0).
FrameReleases_copyBack ==
    << [array |-> "frameData", mode |-> 0],
       [array |-> "intrinsics", mode |-> 0],
       [array |-> "distortion", mode |-> 0],
       [array |-> "pose", mode |-> 0] >>

\* The four Release<Type>ArrayElements calls of a frame delivery, in order.
FrameReleases ==
    << [array |-> "frameData", mode |-> JNI_ABORT],
       [array |-> "intrinsics", mode |-> JNI_ABORT],
       [array |-> "distortion", mode |-> JNI_ABORT],
       [array |-> "pose", mode |-> JNI_ABORT] >>

\* ReleaseStringUTFChars takes no mode: the characters are read-only.
StringRelease == << [array |-> "errorMessage"] >>

\* The arrays a list of Release calls gives back.
Released(rs) == {rs[i].array : i \in 1..Len(rs)}

\* The engine thread is not in a Command Relay call.  A relay record keeps
\* the native's return type, whether the managed method was reached and threw,
\* the value handed back, and whether an exception is left pending.
NoRelay ==
    [returns |-> "nothing", threw |-> FALSE, invoked |-> FALSE,
     result |-> FALSE, pending |-> FALSE]

\* The argument list a frame callback receives.
FrameArgs(input, isLeft) ==
    [frameData |-> input.frameData, dataSize |-> GetArrayLength(input.frameData),
     width |-> input.width, height |-> input.height, timestamp |-> input.timestamp,
     intrinsics |-> input.intrinsics, distortion |-> input.distortion,
     pose |-> input.pose, isLeft |-> isLeft]

\* The argument list the error callback receives.
ErrorArgs(input) == [errorMessage |-> input.errorMessage]

\* One call through a callback pointer, with the facts of the delivery that makes it.
Invocation(t, slotRead, addr, args) ==
    [event |-> call[t].event, entry |-> call[t].entry,
     slotRead |-> slotRead, addr |-> addr, args |-> args, heldAt |-> held[t]]

Init ==
    /\ g_leftFrameCallback = nullptr
    /\ g_rightFrameCallback = nullptr
    /\ g_errorCallback = nullptr
    /\ g_jvm = nullptr
    /\ pc = [t \in Threads |-> "idle"]
    /\ call = [t \in Threads |-> NoCall]
    /\ held = [t \in Threads |-> {}]
    /\ invocations = <<>>
    /\ lastSet = [c \in Channels |-> nullptr]
    /\ replaced = [c \in Channels |-> nullptr]
    /\ nextEvent = 1
    /\ sets = 0
    /\ lifecycle = "initial"
    /\ crashed = FALSE
    /\ releases = [t \in Threads |-> <<>>]
    /\ relay = NoRelay

\* ---------------------------------------------------------------- setters
setLeftFrameCallback(callback) ==
    /\ Callable /\ sets < MaxSets
    /\ g_leftFrameCallback' = reinterpret_cast(callback)
    /\ NoteSet("left", callback)
    /\ UNCHANGED <<relay, releases, g_rightFrameCallback, g_errorCallback, g_jvm, pc, held,
                   invocations, nextEvent, lifecycle, crashed>>

\* Variant: the right setter stores into the left global.
setRightFrameCallback_storesLeft(callback) ==
    /\ Callable /\ sets < MaxSets
    /\ g_leftFrameCallback' = reinterpret_cast(callback)
    /\ NoteSet("right", callback)
    /\ UNCHANGED <<relay, releases, g_rightFrameCallback, g_errorCallback, g_jvm, pc, held,
                   invocations, nextEvent, lifecycle, crashed>>

setRightFrameCallback(callback) ==
    /\ Callable /\ sets < MaxSets
    /\ g_rightFrameCallback' = reinterpret_cast(callback)
    /\ NoteSet("right", callback)
    /\ UNCHANGED <<relay, releases, g_leftFrameCallback, g_errorCallback, g_jvm, pc, held,
                   invocations, nextEvent, lifecycle, crashed>>

\* Variant: registering the error callback resets the two frame slots.
setErrorCallback_clearsFrameSlots(callback) ==
    /\ Callable /\ sets < MaxSets
    /\ g_errorCallback' = reinterpret_cast(callback)
    /\ g_leftFrameCallback' = nullptr
    /\ g_rightFrameCallback' = nullptr
    /\ NoteSet("error", callback)
    /\ UNCHANGED <<relay, releases, g_jvm, pc, held,
                   invocations, nextEvent, lifecycle, crashed>>

setErrorCallback(callback) ==
    /\ Callable /\ sets < MaxSets
    /\ g_errorCallback' = reinterpret_cast(callback)
    /\ NoteSet("error", callback)
    /\ UNCHANGED <<relay, releases, g_leftFrameCallback, g_rightFrameCallback, g_jvm, pc, held,
                   invocations, nextEvent, lifecycle, crashed>>

\* ------------------------------------------- onLeftFrameAvailable
\* Null check of g_leftFrameCallback at function entry.
onLeftFrameAvailable_check(t, input) ==
    /\ Callable /\ pc[t] = "idle" /\ nextEvent <= MaxEvents
    /\ call' = [call EXCEPT ![t] = NewCall("left", input, g_leftFrameCallback)]
    /\ held' = [held EXCEPT ![t] = {}]
    /\ releases' = [releases EXCEPT ![t] = <<>>]
    /\ nextEvent' = nextEvent + 1
    /\ pc' = [pc EXCEPT ![t] = IF g_leftFrameCallback = nullptr THEN "idle" ELSE "get"]
    /\ UNCHANGED <<relay, g_leftFrameCallback, g_rightFrameCallback, g_errorCallback, g_jvm,
                   invocations, lastSet, replaced, sets, lifecycle, crashed>>

\* The four Get<Type>ArrayElements calls; each may return NULL.
onLeftFrameAvailable_get(t, avail) ==
    /\ ~crashed /\ pc[t] = "get" /\ call[t].entry = "left"
    /\ held' = [held EXCEPT ![t] = avail]
    /\ pc' = [pc EXCEPT ![t] = "validate"]
    /\ UNCHANGED <<relay, releases, g_leftFrameCallback, g_rightFrameCallback, g_errorCallback, g_jvm,
                   call, invocations, lastSet, replaced, nextEvent, sets, lifecycle, crashed>>

\* Variant: a missing array is reported through the error callback.
onLeftFrameAvailable_validate_reportsError(t) ==
    /\ ~crashed /\ pc[t] = "validate" /\ call[t].entry = "left"
    /\ IF held[t] # FrameArrays
       THEN /\ pc' = [pc EXCEPT ![t] = "idle"]
            /\ call' = [call EXCEPT ![t] = Returned(@, "dropped")]
            /\ invocations' =
                 IF g_errorCallback = nullptr THEN invocations
                 ELSE Append(invocations, Invocation(t, "error", g_errorCallback,
                                 ErrorArgs([errorMessage |-> "sensor timeout"])))
       ELSE /\ pc' = [pc EXCEPT ![t] = "invoke"]
            /\ call' = call
            /\ invocations' = invocations
    /\ UNCHANGED <<relay, releases, g_leftFrameCallback, g_rightFrameCallback, g_errorCallback, g_jvm,
                   held, lastSet, replaced, nextEvent, sets, lifecycle, crashed>>

\* if (!frameBytes || !intrinsicsFloat || !distortionFloat || !poseFloat) return;
onLeftFrameAvailable_validate(t) ==
    /\ ~crashed /\ pc[t] = "validate" /\ call[t].entry = "left"
    /\ IF held[t] # FrameArrays
       THEN /\ pc' = [pc EXCEPT ![t] = "idle"]
            /\ call' = [call EXCEPT ![t] = Returned(@, "dropped")]
       ELSE /\ pc' = [pc EXCEPT ![t] = "invoke"]
            /\ call' = call
    /\ UNCHANGED <<relay, releases, g_leftFrameCallback, g_rightFrameCallback, g_errorCallback, g_jvm,
                   held, invocations, lastSet, replaced, nextEvent, sets, lifecycle, crashed>>

\* Variant: the callback is called a second time.
onLeftFrameAvailable_invoke_twice(t) ==
    /\ ~crashed /\ pc[t] = "invoke" /\ call[t].entry = "left"
    /\ invocations' = invocations \o
           << Invocation(t, "left", g_leftFrameCallback, FrameArgs(call[t].input, TRUE)),
              Invocation(t, "left", g_leftFrameCallback, FrameArgs(call[t].input, TRUE)) >>
    /\ IF g_leftFrameCallback = nullptr
       THEN crashed' = TRUE /\ pc' = [pc EXCEPT ![t] = "crashed"]
       ELSE crashed' = crashed /\ pc' = [pc EXCEPT ![t] = "callback"]
    /\ UNCHANGED <<relay, releases, g_leftFrameCallback, g_rightFrameCallback, g_errorCallback, g_jvm,
                   call, held, lastSet, replaced, nextEvent, sets, lifecycle>>

\* Variant: the call goes through the right-frame global.
onLeftFrameAvailable_invoke_rightSlot(t) ==
    /\ ~crashed /\ pc[t] = "invoke" /\ call[t].entry = "left"
    /\ invocations' = Append(invocations,
           Invocation(t, "right", g_rightFrameCallback, FrameArgs(call[t].input, TRUE)))
    /\ IF g_rightFrameCallback = nullptr
       THEN crashed' = TRUE /\ pc' = [pc EXCEPT ![t] = "crashed"]
       ELSE crashed' = crashed /\ pc' = [pc EXCEPT ![t] = "callback"]
    /\ UNCHANGED <<relay, releases, g_leftFrameCallback, g_rightFrameCallback, g_errorCallback, g_jvm,
                   call, held, lastSet, replaced, nextEvent, sets, lifecycle>>

\* Variant: a delivery that follows a failed command or an undelivered event
\* is swallowed.
onLeftFrameAvailable_invoke_skipsAfterFailure(t) ==
    /\ ~crashed /\ pc[t] = "invoke" /\ call[t].entry = "left"
    /\ invocations' =
          IF \/ call[t].afterFailedCommand
             \/ \E e \in 1..(call[t].event - 1) :
                   \A i \in 1..Len(invocations) : invocations[i].event # e
          THEN invocations
          ELSE Append(invocations,
                   Invocation(t, "left", g_leftFrameCallback, FrameArgs(call[t].input, TRUE)))
    /\ IF g_leftFrameCallback = nullptr
       THEN crashed' = TRUE /\ pc' = [pc EXCEPT ![t] = "crashed"]
       ELSE crashed' = crashed /\ pc' = [pc EXCEPT ![t] = "callback"]
    /\ UNCHANGED <<relay, releases, g_leftFrameCallback, g_rightFrameCallback, g_errorCallback, g_jvm,
                   call, held, lastSet, replaced, nextEvent, sets, lifecycle>>

\* g_leftFrameCallback(frameBytes, dataSize, ..., true): the global is read again.
onLeftFrameAvailable_invoke(t) ==
    /\ ~crashed /\ pc[t] = "invoke" /\ call[t].entry = "left"
    /\ invocations' = Append(invocations,
           Invocation(t, "left", g_leftFrameCallback, FrameArgs(call[t].input, TRUE)))
    /\ IF g_leftFrameCallback = nullptr
       THEN crashed' = TRUE /\ pc' = [pc EXCEPT ![t] = "crashed"]
       ELSE crashed' = crashed /\ pc' = [pc EXCEPT ![t] = "callback"]
    /\ UNCHANGED <<relay, releases, g_leftFrameCallback, g_rightFrameCallback, g_errorCallback, g_jvm,
                   call, held, lastSet, replaced, nextEvent, sets, lifecycle>>

\* The callback returns; the four Release<Type>ArrayElements calls; return.
onLeftFrameAvailable_release(t) ==
    /\ ~crashed /\ pc[t] = "callback" /\ call[t].entry = "left"
    /\ held' = [held EXCEPT ![t] = @ \ Released(FrameReleases)]
    /\ releases' = [releases EXCEPT ![t] = FrameReleases]
    /\ pc' = [pc EXCEPT ![t] = "idle"]
    /\ call' = [call EXCEPT ![t] = Returned(@, "delivered")]
    /\ UNCHANGED <<relay, g_leftFrameCallback, g_rightFrameCallback, g_errorCallback, g_jvm,
                   invocations, lastSet, replaced, nextEvent, sets, lifecycle, crashed>>

\* Variant: the null check does not return.
onRightFrameAvailable_check_noReturn(t, input) ==
    /\ Callable /\ pc[t] = "idle" /\ nextEvent <= MaxEvents
    /\ call' = [call EXCEPT ![t] = NewCall("right", input, g_rightFrameCallback)]
    /\ held' = [held EXCEPT ![t] = {}]
    /\ releases' = [releases EXCEPT ![t] = <<>>]
    /\ nextEvent' = nextEvent + 1
    /\ pc' = [pc EXCEPT ![t] = "get"]
    /\ UNCHANGED <<relay, g_leftFrameCallback, g_rightFrameCallback, g_errorCallback, g_jvm,
                   invocations, lastSet, replaced, sets, lifecycle, crashed>>

\* ------------------------------------------- onRightFrameAvailable
\* Null check of g_rightFrameCallback at function entry.
onRightFrameAvailable_check(t, input) ==
    /\ Callable /\ pc[t] = "idle" /\ nextEvent <= MaxEvents
    /\ call' = [call EXCEPT ![t] = NewCall("right", input, g_rightFrameCallback)]
    /\ held' = [held EXCEPT ![t] = {}]
    /\ releases' = [releases EXCEPT ![t] = <<>>]
    /\ nextEvent' = nextEvent + 1
    /\ pc' = [pc EXCEPT ![t] = IF g_rightFrameCallback = nullptr THEN "idle" ELSE "get"]
    /\ UNCHANGED <<relay, g_leftFrameCallback, g_rightFrameCallback, g_errorCallback, g_jvm,
                   invocations, lastSet, replaced, sets, lifecycle, crashed>>

\* The four Get<Type>ArrayElements calls; each may return NULL.
onRightFrameAvailable_get(t, avail) ==
    /\ ~crashed /\ pc[t] = "get" /\ call[t].entry = "right"
    /\ held' = [held EXCEPT ![t] = avail]
    /\ pc' = [pc EXCEPT ![t] = "validate"]
    /\ UNCHANGED <<relay, releases, g_leftFrameCallback, g_rightFrameCallback, g_errorCallback, g_jvm,
                   call, invocations, lastSet, replaced, nextEvent, sets, lifecycle, crashed>>

\* if (!frameBytes || !intrinsicsFloat || !distortionFloat || !poseFloat) return;
onRightFrameAvailable_validate(t) ==
    /\ ~crashed /\ pc[t] = "validate" /\ call[t].entry = "right"
    /\ IF held[t] # FrameArrays
       THEN /\ pc' = [pc EXCEPT ![t] = "idle"]
            /\ call' = [call EXCEPT ![t] = Returned(@, "dropped")]
       ELSE /\ pc' = [pc EXCEPT ![t] = "invoke"]
            /\ call' = call
    /\ UNCHANGED <<relay, releases, g_leftFrameCallback, g_rightFrameCallback, g_errorCallback, g_jvm,
                   held, invocations, lastSet, replaced, nextEvent, sets, lifecycle, crashed>>

\* Variant: the right entry point passes the left tag.
onRightFrameAvailable_invoke_leftTag(t) ==
    /\ ~crashed /\ pc[t] = "invoke" /\ call[t].entry = "right"
    /\ invocations' = Append(invocations,
           Invocation(t, "right", g_rightFrameCallback, FrameArgs(call[t].input, TRUE)))
    /\ IF g_rightFrameCallback = nullptr
       THEN crashed' = TRUE /\ pc' = [pc EXCEPT ![t] = "crashed"]
       ELSE crashed' = crashed /\ pc' = [pc EXCEPT ![t] = "callback"]
    /\ UNCHANGED <<relay, releases, g_leftFrameCallback, g_rightFrameCallback, g_errorCallback, g_jvm,
                   call, held, lastSet, replaced, nextEvent, sets, lifecycle>>

\* Variant: the invocation is placed ahead of the invocations already made.
onRightFrameAvailable_invoke_prepends(t) ==
    /\ ~crashed /\ pc[t] = "invoke" /\ call[t].entry = "right"
    /\ invocations' =
           << Invocation(t, "right", g_rightFrameCallback, FrameArgs(call[t].input, FALSE)) >>
           \o invocations
    /\ IF g_rightFrameCallback = nullptr
       THEN crashed' = TRUE /\ pc' = [pc EXCEPT ![t] = "crashed"]
       ELSE crashed' = crashed /\ pc' = [pc EXCEPT ![t] = "callback"]
    /\ UNCHANGED <<relay, releases, g_leftFrameCallback, g_rightFrameCallback, g_errorCallback, g_jvm,
                   call, held, lastSet, replaced, nextEvent, sets, lifecycle>>

\* g_rightFrameCallback(frameBytes, dataSize, ..., false): the global is read again.
onRightFrameAvailable_invoke(t) ==
    /\ ~crashed /\ pc[t] = "invoke" /\ call[t].entry = "right"
    /\ invocations' = Append(invocations,
           Invocation(t, "right", g_rightFrameCallback, FrameArgs(call[t].input, FALSE)))
    /\ IF g_rightFrameCallback = nullptr
       THEN crashed' = TRUE /\ pc' = [pc EXCEPT ![t] = "crashed"]
       ELSE crashed' = crashed /\ pc' = [pc EXCEPT ![t] = "callback"]
    /\ UNCHANGED <<relay, releases, g_leftFrameCallback, g_rightFrameCallback, g_errorCallback, g_jvm,
                   call, held, lastSet, replaced, nextEvent, sets, lifecycle>>

\* Variant: the pose array is not released.
onRightFrameAvailable_release_skipsPose(t) ==
    /\ ~crashed /\ pc[t] = "callback" /\ call[t].entry = "right"
    /\ held' = [held EXCEPT ![t] = @ \ Released(SubSeq(FrameReleases, 1, 3))]
    /\ releases' = [releases EXCEPT ![t] = SubSeq(FrameReleases, 1, 3)]
    /\ pc' = [pc EXCEPT ![t] = "idle"]
    /\ call' = [call EXCEPT ![t] = Returned(@, "delivered")]
    /\ UNCHANGED <<relay, g_leftFrameCallback, g_rightFrameCallback, g_errorCallback, g_jvm,
                   invocations, lastSet, replaced, nextEvent, sets, lifecycle, crashed>>

\* The callback returns; the four Release<Type>ArrayElements calls; return.
onRightFrameAvailable_release(t) ==
    /\ ~crashed /\ pc[t] = "callback" /\ call[t].entry = "right"
    /\ held' = [held EXCEPT ![t] = @ \ Released(FrameReleases)]
    /\ releases' = [releases EXCEPT ![t] = FrameReleases]
    /\ pc' = [pc EXCEPT ![t] = "idle"]
    /\ call' = [call EXCEPT ![t] = Returned(@, "delivered")]
    /\ UNCHANGED <<relay, g_leftFrameCallback, g_rightFrameCallback, g_errorCallback, g_jvm,
                   invocations, lastSet, replaced, nextEvent, sets, lifecycle, crashed>>

\* ------------------------------------------------------- onCameraError
\* Null check of g_errorCallback at function entry.
onCameraError_check(t, input) ==
    /\ Callable /\ pc[t] = "idle" /\ nextEvent <= MaxEvents
    /\ call' = [call EXCEPT ![t] = NewCall("error", input, g_errorCallback)]
    /\ held' = [held EXCEPT ![t] = {}]
    /\ releases' = [releases EXCEPT ![t] = <<>>]
    /\ nextEvent' = nextEvent + 1
    /\ pc' = [pc EXCEPT ![t] = IF g_errorCallback = nullptr THEN "idle" ELSE "get"]
    /\ UNCHANGED <<relay, g_leftFrameCallback, g_rightFrameCallback, g_errorCallback, g_jvm,
                   invocations, lastSet, replaced, sets, lifecycle, crashed>>

\* GetStringUTFChars(errorMessage, nullptr); may return NULL.
onCameraError_get(t, avail) ==
    /\ ~crashed /\ pc[t] = "get" /\ call[t].entry = "error"
    /\ held' = [held EXCEPT ![t] = avail]
    /\ pc' = [pc EXCEPT ![t] = "validate"]
    /\ UNCHANGED <<relay, releases, g_leftFrameCallback, g_rightFrameCallback, g_errorCallback, g_jvm,
                   call, invocations, lastSet, replaced, nextEvent, sets, lifecycle, crashed>>

\* if (errorStr) { ... }
onCameraError_validate(t) ==
    /\ ~crashed /\ pc[t] = "validate" /\ call[t].entry = "error"
    /\ IF held[t] # StringHandles
       THEN /\ pc' = [pc EXCEPT ![t] = "idle"]
            /\ call' = [call EXCEPT ![t] = Returned(@, "dropped")]
       ELSE /\ pc' = [pc EXCEPT ![t] = "invoke"]
            /\ call' = call
    /\ UNCHANGED <<relay, releases, g_leftFrameCallback, g_rightFrameCallback, g_errorCallback, g_jvm,
                   held, invocations, lastSet, replaced, nextEvent, sets, lifecycle, crashed>>

\* g_errorCallback(errorStr): the global is read again.
onCameraError_invoke(t) ==
    /\ ~crashed /\ pc[t] = "invoke" /\ call[t].entry = "error"
    /\ invocations' = Append(invocations,
           Invocation(t, "error", g_errorCallback, ErrorArgs(call[t].input)))
    /\ IF g_errorCallback = nullptr
       THEN crashed' = TRUE /\ pc' = [pc EXCEPT ![t] = "crashed"]
       ELSE crashed' = crashed /\ pc' = [pc EXCEPT ![t] = "callback"]
    /\ UNCHANGED <<relay, releases, g_leftFrameCallback, g_rightFrameCallback, g_errorCallback, g_jvm,
                   call, held, lastSet, replaced, nextEvent, sets, lifecycle>>

\* Variant: the string is not released.
onCameraError_release_keepsString(t) ==
    /\ ~crashed /\ pc[t] = "callback" /\ call[t].entry = "error"
    /\ held' = held
    /\ pc' = [pc EXCEPT ![t] = "idle"]
    /\ call' = [call EXCEPT ![t] = Returned(@, "delivered")]
    /\ UNCHANGED <<relay, releases, g_leftFrameCallback, g_rightFrameCallback, g_errorCallback, g_jvm,
                   invocations, lastSet, replaced, nextEvent, sets, lifecycle, crashed>>

\* The callback returns; ReleaseStringUTFChars(errorMessage, errorStr); return.
onCameraError_release(t) ==
    /\ ~crashed /\ pc[t] = "callback" /\ call[t].entry = "error"
    /\ held' = [held EXCEPT ![t] = @ \ Released(StringRelease)]
    /\ releases' = [releases EXCEPT ![t] = StringRelease]
    /\ pc' = [pc EXCEPT ![t] = "idle"]
    /\ call' = [call EXCEPT ![t] = Returned(@, "delivered")]
    /\ UNCHANGED <<relay, g_leftFrameCallback, g_rightFrameCallback, g_errorCallback, g_jvm,
                   invocations, lastSet, replaced, nextEvent, sets, lifecycle, crashed>>

\* --------------------------------------------------------- Command Relay
\* The JNI lookups every relay operation makes before it calls the managed
\* method, in the order of the code.
LookupSteps ==
    << "FindClass_plugin", "FindClass_companion", "GetStaticFieldID",
       "GetStaticObjectField", "GetMethodID_getInstance",
       "CallObjectMethod_getInstance", "GetMethodID_operation" >>

\* nativeInitialize also looks up android/content/Context and tests the argument.
InitializeSteps == LookupSteps \o << "FindClass_Context", "IsInstanceOf" >>

StepsOf(steps) == {steps[i] : i \in 1..Len(steps)}

\* JNI: FindClass, GetStaticFieldID and GetMethodID return NULL with an
\* exception pending in the calling thread; GetStaticObjectField and
\* IsInstanceOf fail without one; CallObjectMethod returns NULL either because
\* getInstance returned null or because it threw.
LeavesException(step, getInstanceThrew) ==
    CASE step \in {"FindClass_plugin", "FindClass_companion", "GetStaticFieldID",
                   "GetMethodID_getInstance", "GetMethodID_operation",
                   "FindClass_Context"} -> TRUE
      [] step = "CallObjectMethod_getInstance" -> getInstanceThrew
      [] OTHER -> FALSE

\* What the managed operation does when it is called.
ManagedOutcomes == {"true", "false", "throws"}

\* A relay call that returned early because lookup `failedAt` gave NULL/false.
LookupFailed(returns, failedAt, getInstanceThrew) ==
    [returns |-> returns, threw |-> FALSE, invoked |-> FALSE,
     result |-> FALSE, pending |-> LeavesException(failedAt, getInstanceThrew)]

\* A relay call that reached the managed method and checks ExceptionCheck()
\* after it: the exception is described, cleared and JNI_FALSE returned.
CalledChecked(returns, outcome) ==
    [returns |-> returns, threw |-> outcome = "throws", invoked |-> TRUE,
     result |-> outcome = "true", pending |-> FALSE]

\* A relay call that reached the managed method and returns what the Call
\* function gave, without looking at the exception state; after a throw the
\* returned jboolean is unspecified.
CalledUnchecked(returns, outcome, unspecified) ==
    [returns |-> returns, threw |-> outcome = "throws", invoked |-> TRUE,
     result |-> IF outcome = "throws" THEN unspecified ELSE outcome = "true",
     pending |-> outcome = "throws"]

\* A void relay call that reached the managed method.
CalledVoid(returns, outcome) ==
    [returns |-> returns, threw |-> outcome = "throws", invoked |-> TRUE,
     result |-> FALSE, pending |-> outcome = "throws"]

\* What the Java side can answer to one relay call: which lookup fails (with
\* or without getInstance throwing), or else what the managed method does and,
\* after a throw, which unspecified jboolean the Call function hands back.
RelayEnvs(steps, unspecifiedValues) ==
    {[failedAt |-> f, getInstanceThrew |-> FALSE, outcome |-> "true", unspecified |-> FALSE] :
        f \in StepsOf(steps)}
    \cup {[failedAt |-> "CallObjectMethod_getInstance", getInstanceThrew |-> TRUE,
           outcome |-> "true", unspecified |-> FALSE]}
    \cup {[failedAt |-> "none", getInstanceThrew |-> FALSE, outcome |-> o, unspecified |-> FALSE] :
        o \in {"true", "false"}}
    \cup {[failedAt |-> "none", getInstanceThrew |-> FALSE, outcome |-> "throws", unspecified |-> u] :
        u \in unspecifiedValues}

RelayUnchanged ==
    UNCHANGED <<g_leftFrameCallback, g_rightFrameCallback, g_errorCallback, g_jvm,
                pc, call, held, invocations, lastSet, replaced, nextEvent, sets,
                lifecycle, crashed, releases>>

nativeInitialize(failedAt, getInstanceThrew, outcome) ==
    /\ Callable /\ relay = NoRelay
    /\ relay' = IF failedAt # "none"
                THEN LookupFailed("jboolean", failedAt, getInstanceThrew)
                ELSE CalledChecked("jboolean", outcome)
    /\ RelayUnchanged

nativeStartDualCamera(failedAt, getInstanceThrew, outcome, unspecified) ==
    /\ Callable /\ relay = NoRelay
    /\ relay' = IF failedAt # "none"
                THEN LookupFailed("jboolean", failedAt, getInstanceThrew)
                ELSE CalledUnchecked("jboolean", outcome, unspecified)
    /\ RelayUnchanged

nativeStopDualCamera(failedAt, getInstanceThrew, outcome) ==
    /\ Callable /\ relay = NoRelay
    /\ relay' = IF failedAt # "none"
                THEN LookupFailed("void", failedAt, getInstanceThrew)
                ELSE CalledVoid("void", outcome)
    /\ RelayUnchanged

\* isLeft is handed on to the managed method as its argument.
nativeStartSingleCamera(isLeft, failedAt, getInstanceThrew, outcome, unspecified) ==
    /\ Callable /\ relay = NoRelay
    /\ relay' = IF failedAt # "none"
                THEN LookupFailed("jboolean", failedAt, getInstanceThrew)
                ELSE CalledUnchecked("jboolean", outcome, unspecified)
    /\ RelayUnchanged

\* isLeft is handed on to the managed method as its argument.
nativeStopSingleCamera(isLeft, failedAt, getInstanceThrew, outcome) ==
    /\ Callable /\ relay = NoRelay
    /\ relay' = IF failedAt # "none"
                THEN LookupFailed("void", failedAt, getInstanceThrew)
                ELSE CalledVoid("void", outcome)
    /\ RelayUnchanged

\* The native frame is gone: the engine thread has taken the return value and
\* the VM has raised whatever exception was left pending in its caller.
relayReturns ==
    /\ ~crashed /\ relay # NoRelay
    /\ relay' = NoRelay
    /\ RelayUnchanged

\* ------------------------------------------------------- module lifecycle
JNI_OnLoad(vm) ==
    /\ lifecycle # "loaded" /\ ~crashed
    /\ g_jvm' = vm
    /\ lifecycle' = "loaded"
    /\ UNCHANGED <<relay, releases, g_leftFrameCallback, g_rightFrameCallback, g_errorCallback,
                   pc, call, held, invocations, lastSet, replaced, nextEvent, sets, crashed>>

\* The VM unloads a library only when no thread is inside one of its natives.
JNI_OnUnload ==
    /\ Callable
    /\ \A t \in Threads : pc[t] = "idle"
    /\ g_jvm' = nullptr
    /\ lifecycle' = "unloaded"
    /\ UNCHANGED <<relay, releases, g_leftFrameCallback, g_rightFrameCallback, g_errorCallback,
                   pc, call, held, invocations, lastSet, replaced, nextEvent, sets, crashed>>

Next ==
    \/ \E callback \in JLongs : setLeftFrameCallback(callback)
    \/ \E callback \in JLongs : setRightFrameCallback(callback)
    \/ \E callback \in JLongs : setErrorCallback(callback)
    \/ \E t \in Threads, input \in FrameInputs : onLeftFrameAvailable_check(t, input)
    \/ \E t \in Threads, avail \in FrameAvail : onLeftFrameAvailable_get(t, avail)
    \/ \E t \in Threads : onLeftFrameAvailable_validate(t)
    \/ \E t \in Threads : onLeftFrameAvailable_invoke(t)
    \/ \E t \in Threads : onLeftFrameAvailable_release(t)
    \/ \E t \in Threads, input \in FrameInputs : onRightFrameAvailable_check(t, input)
    \/ \E t \in Threads, avail \in FrameAvail : onRightFrameAvailable_get(t, avail)
    \/ \E t \in Threads : onRightFrameAvailable_validate(t)
    \/ \E t \in Threads : onRightFrameAvailable_invoke(t)
    \/ \E t \in Threads : onRightFrameAvailable_release(t)
    \/ \E t \in Threads, input \in ErrorInputs : onCameraError_check(t, input)
    \/ \E t \in Threads, avail \in SUBSET StringHandles : onCameraError_get(t, avail)
    \/ \E t \in Threads : onCameraError_validate(t)
    \/ \E t \in Threads : onCameraError_invoke(t)
    \/ \E t \in Threads : onCameraError_release(t)
    \/ \E vm \in JavaVMs : JNI_OnLoad(vm)
    \/ JNI_OnUnload

Spec == Init /\ [][Next]_vars

\* The whole adapter: the engine thread registers and sends commands, one
\* capture thread delivers.
RelayThreads == {"capture1"}

NextRelay ==
    \/ \E callback \in JLongs : setLeftFrameCallback(callback)
    \/ \E callback \in JLongs : setRightFrameCallback(callback)
    \/ \E callback \in JLongs : setErrorCallback(callback)
    \/ \E t \in RelayThreads, input \in FrameInputs : onLeftFrameAvailable_check(t, input)
    \/ \E t \in RelayThreads, avail \in FrameAvail : onLeftFrameAvailable_get(t, avail)
    \/ \E t \in RelayThreads : onLeftFrameAvailable_validate(t)
    \/ \E t \in RelayThreads : onLeftFrameAvailable_invoke(t)
    \/ \E t \in RelayThreads : onLeftFrameAvailable_release(t)
    \/ \E t \in RelayThreads, input \in FrameInputs : onRightFrameAvailable_check(t, input)
    \/ \E t \in RelayThreads, avail \in FrameAvail : onRightFrameAvailable_get(t, avail)
    \/ \E t \in RelayThreads : onRightFrameAvailable_validate(t)
    \/ \E t \in RelayThreads : onRightFrameAvailable_invoke(t)
    \/ \E t \in RelayThreads : onRightFrameAvailable_release(t)
    \/ \E t \in RelayThreads, input \in ErrorInputs : onCameraError_check(t, input)
    \/ \E t \in RelayThreads, avail \in SUBSET StringHandles : onCameraError_get(t, avail)
    \/ \E t \in RelayThreads : onCameraError_validate(t)
    \/ \E t \in RelayThreads : onCameraError_invoke(t)
    \/ \E t \in RelayThreads : onCameraError_release(t)
    \/ \E env \in RelayEnvs(InitializeSteps, {FALSE}) :
          nativeInitialize(env.failedAt, env.getInstanceThrew, env.outcome)
    \/ \E env \in RelayEnvs(LookupSteps, BOOLEAN) :
          nativeStartDualCamera(env.failedAt, env.getInstanceThrew, env.outcome, env.unspecified)
    \/ \E env \in RelayEnvs(LookupSteps, {FALSE}) :
          nativeStopDualCamera(env.failedAt, env.getInstanceThrew, env.outcome)
    \/ \E isLeft \in BOOLEAN, env \in RelayEnvs(LookupSteps, BOOLEAN) :
          nativeStartSingleCamera(isLeft, env.failedAt, env.getInstanceThrew, env.outcome, env.unspecified)
    \/ \E isLeft \in BOOLEAN, env \in RelayEnvs(LookupSteps, {FALSE}) :
          nativeStopSingleCamera(isLeft, env.failedAt, env.getInstanceThrew, env.outcome)
    \/ relayReturns
    \/ \E vm \in JavaVMs : JNI_OnLoad(vm)
    \/ JNI_OnUnload

SpecRelay == Init /\ [][NextRelay]_vars

\* ================================================================ claims
\* The invocations made by delivery call number e.
InvocationsOf(e) == {i \in 1..Len(invocations) : invocations[i].event = e}

\* What a delivery must have obtained before it may call the callback.
Required(entry) == IF entry = "error" THEN StringHandles ELSE FrameArrays

\* C1: on every channel the slot holds exactly the value passed to the last
\* registration call on that channel, a null registration leaving it empty.
C1_RegisterResolveRoundTrip ==
    \A channel \in Channels : resolve(channel) = lastSet[channel]

\* A slot was re-registered with a second address and resolves to it.
C1_Witness ==
    /\ sets = MaxSets
    /\ \E channel \in Channels :
          replaced[channel] # nullptr /\ resolve(channel) = lastSet[channel]

\* C2: a delivery that found its slot non-empty and obtained all its buffers
\* calls the callback exactly once, before it returns; a delivery is dropped
\* only when a buffer is missing.
C2_ExactlyOneInvocationPerDelivery ==
    \A t \in Threads :
        LET n == Cardinality(InvocationsOf(call[t].event)) IN
        /\ n <= 1
        /\ pc[t] \in {"get", "validate", "invoke"} => n = 0
        /\ pc[t] \in {"callback", "crashed"} => n = 1
        /\ call[t].outcome = "delivered" => n = 1
        /\ pc[t] = "invoke" => held[t] = Required(call[t].entry)
        /\ call[t].outcome = "dropped" => held[t] # Required(call[t].entry)

\* A left-frame delivery has returned after one invocation.
C2_Witness ==
    \E t \in Threads :
        /\ pc[t] = "idle" /\ call[t].entry = "left" /\ call[t].outcome = "delivered"
        /\ Cardinality(InvocationsOf(call[t].event)) = 1

\* C3: a delivery that finds its slot empty returns at once: it calls no
\* callback and holds no buffer.
C3_EmptySlotDeliveryIsNoOp ==
    \A t \in Threads :
        call[t].outcome = "skipped" =>
            /\ pc[t] = "idle"
            /\ held[t] = {}
            /\ InvocationsOf(call[t].event) = {}

\* A right-frame delivery was skipped while the left slot was registered.
C3_Witness ==
    \E t \in Threads :
        /\ call[t].entry = "right" /\ call[t].outcome = "skipped"
        /\ g_rightFrameCallback = nullptr /\ g_leftFrameCallback # nullptr

\* C4: no delivery call returns with a buffer acquired and not released.
C4_NoBufferHeldAfterDelivery ==
    \A t \in Threads : pc[t] = "idle" => held[t] = {}

\* C5: the address a delivery calls is never empty, whatever registration
\* calls run concurrently with it.
C5_InvokedAddressNeverEmpty ==
    \A i \in 1..Len(invocations) : invocations[i].addr \in Addresses

\* C6: a delivery that starts after a channel was re-registered from A to B,
\* with no registration on the channel since, calls B through its own
\* channel's slot, and never A.
C6_DeliveryAfterReRegistrationInvokesNew ==
    \A t \in Threads :
        ( /\ pc[t] \in {"callback", "crashed"}
          /\ ~call[t].regDuring
          /\ call[t].replacedAtEntry # nullptr ) =>
            \A i \in InvocationsOf(call[t].event) :
                /\ invocations[i].addr = call[t].lastAtEntry
                /\ invocations[i].addr # call[t].replacedAtEntry
                /\ invocations[i].slotRead = call[t].entry

\* A left-frame delivery begun after a re-registration has called the callback.
C6_Witness ==
    \E t \in Threads :
        /\ pc[t] = "callback" /\ call[t].entry = "left"
        /\ ~call[t].regDuring /\ call[t].replacedAtEntry # nullptr
        /\ InvocationsOf(call[t].event) # {}

\* C7: the left entry point always passes isLeft = true and the right entry
\* point always passes isLeft = false.
C7_SideTagMatchesEntryPoint ==
    \A i \in 1..Len(invocations) :
        /\ invocations[i].entry = "left" => invocations[i].args.isLeft = TRUE
        /\ invocations[i].entry = "right" => invocations[i].args.isLeft = FALSE

\* Both entry points have called the same address.
C7_Witness ==
    \E i, j \in 1..Len(invocations) :
        /\ invocations[i].entry = "left" /\ invocations[j].entry = "right"
        /\ invocations[i].addr = invocations[j].addr

\* C8: an error delivery made while a callback is registered calls it once
\* with the delivered message, holding the string until the callback has
\* returned and not after; an error delivery made after the slot was cleared
\* calls nothing and holds nothing.
C8_ErrorDeliveryInvokesOnceThenReleases ==
    \A t \in Threads :
        call[t].entry = "error" =>
            /\ (pc[t] = "callback" /\ ~call[t].regDuring) =>
                  /\ held[t] = StringHandles
                  /\ Cardinality(InvocationsOf(call[t].event)) = 1
                  /\ \A i \in InvocationsOf(call[t].event) :
                        /\ invocations[i].addr = call[t].lastAtEntry
                        /\ invocations[i].args = ErrorArgs(call[t].input)
            /\ call[t].outcome = "delivered" =>
                  /\ held[t] = {}
                  /\ Cardinality(InvocationsOf(call[t].event)) = 1
            /\ call[t].outcome = "skipped" =>
                  /\ held[t] = {}
                  /\ InvocationsOf(call[t].event) = {}

\* "sensor timeout" was delivered once, the slot was cleared and a second
\* error delivery was skipped.
C8_Witness ==
    \E t \in Threads :
        /\ call[t].entry = "error" /\ call[t].outcome = "skipped"
        /\ lastSet["error"] = nullptr
        /\ Len(invocations) = 1
        /\ invocations[1].entry = "error"
        /\ invocations[1].args.errorMessage = "sensor timeout"
        /\ invocations[1].event < call[t].event

\* C9: a frame delivery with a missing buffer calls no callback, neither the
\* frame callback nor the error callback; every invocation is made by a
\* delivery that holds all its buffers, through its own channel's slot.
C9_DroppedFrameIsNotReportedOrRetried ==
    /\ \A t \in Threads :
          (call[t].entry \in {"left", "right"} /\ call[t].outcome = "dropped") =>
              InvocationsOf(call[t].event) = {}
    /\ \A i \in 1..Len(invocations) :
          /\ invocations[i].heldAt = Required(invocations[i].entry)
          /\ invocations[i].slotRead = invocations[i].entry

\* A left frame was dropped while an error callback was registered, and a
\* later left delivery went through: it is the only invocation.
C9_Witness ==
    \E t, u \in Threads :
        /\ call[t].entry = "left" /\ call[t].outcome = "dropped"
        /\ g_errorCallback # nullptr
        /\ call[u].entry = "left" /\ call[u].outcome = "delivered"
        /\ call[t].event < call[u].event
        /\ Len(invocations) = 1

\* C10: once the unload entry point has run, every channel's slot is empty.
C10_UnloadClearsAllSlots ==
    lifecycle = "unloaded" => \A channel \in Channels : resolve(channel) = nullptr

\* C11: the channel set is {left-frame, right-frame, error, stereo-frame}:
\* each of the four has a slot, and every invocation goes through one of them.
C11_RegistryHasFourChannels ==
    /\ Channels = {"left", "right", "error", "stereo"}
    /\ DOMAIN lastSet = {"left", "right", "error", "stereo"}
    /\ \A i \in 1..Len(invocations) : invocations[i].slotRead \in Channels

\* C13: a relay operation that could not locate the class, the companion, the
\* instance or the method returns false (or nothing), does not call the
\* managed operation and leaves no exception pending for its caller.
C13_LookupFailureLeavesNoFault ==
    (relay.returns # "nothing" /\ ~relay.invoked) =>
        /\ ~relay.result
        /\ ~relay.threw
        /\ ~relay.pending

\* C14: when the managed operation throws, the relay operation clears the
\* exception and returns failure: nothing is pending after the call, and a
\* faulted initialize or start never returns true.
C14_ManagedFaultIsClearedAndFails ==
    (relay.returns # "nothing" /\ relay.threw) =>
        /\ ~relay.pending
        /\ ~relay.result

Undelivered(t) ==
    {e \in 1..(call[t].event - 1) : InvocationsOf(e) = {}}

\* C16: a delivery that follows a failed command or an undelivered event, and
\* finds its slot set and all its buffers, calls the callback exactly once,
\* with its own event; the undelivered events stay undelivered, and a dropped
\* or skipped call has invoked nothing.
C16_NextCallUnaffectedByFailure ==
    \A t \in Threads :
        /\ (pc[t] = "callback" /\ (call[t].afterFailedCommand \/ Undelivered(t) # {})) =>
              /\ Cardinality(InvocationsOf(call[t].event)) = 1
              /\ \A i \in InvocationsOf(call[t].event) :
                    /\ i = Len(invocations)
                    /\ invocations[i].entry = call[t].entry
                    /\ invocations[i].addr # nullptr
                    /\ invocations[i].args =
                          IF call[t].entry = "error" THEN ErrorArgs(call[t].input)
                          ELSE FrameArgs(call[t].input, call[t].entry = "left")
        /\ (call[t].outcome = "delivered" /\ Undelivered(t) # {}) =>
              Cardinality(InvocationsOf(call[t].event)) = 1
        /\ call[t].outcome \in {"dropped", "skipped"} =>
              InvocationsOf(call[t].event) = {}

\* A delivery was dropped, a command failed, and the delivery that came next
\* is in its callback.
C16_Witness ==
    \E t \in Threads :
        /\ pc[t] = "callback"
        /\ call[t].afterFailedCommand
        /\ Undelivered(t) # {}
        /\ Cardinality(InvocationsOf(call[t].event)) = 1

\* C17: a frame callback is called with all four arrays obtained; none is
\* released while it runs; when the delivery has returned each has been
\* released exactly once and none is held.
C17_BuffersHeldAcrossInvocationThenReleased ==
    /\ \A i \in 1..Len(invocations) :
          invocations[i].entry \in {"left", "right"} => invocations[i].heldAt = FrameArrays
    /\ \A t \in Threads :
          call[t].entry \in {"left", "right"} =>
              /\ pc[t] \in {"get", "validate", "invoke", "callback"} => releases[t] = <<>>
              /\ pc[t] = "callback" => held[t] = FrameArrays
              /\ call[t].outcome = "delivered" =>
                    /\ held[t] = {}
                    /\ Len(releases[t]) = Cardinality(FrameArrays)
                    /\ \A a \in FrameArrays :
                          Cardinality({i \in 1..Len(releases[t]) : releases[t][i].array = a}) = 1

\* A right-frame delivery has returned after its callback ran and its four
\* arrays were released.
C17_Witness ==
    \E t \in Threads :
        /\ pc[t] = "idle" /\ call[t].entry = "right" /\ call[t].outcome = "delivered"
        /\ held[t] = {}
        /\ Released(releases[t]) = FrameArrays
        /\ \E i \in InvocationsOf(call[t].event) : invocations[i].heldAt = FrameArrays

\* C18: every release a frame delivery makes discards the buffer (JNI_ABORT)
\* and none copies it back, on every path that releases.
C18_FrameReleasesDiscard ==
    \A t \in Threads :
        call[t].entry \in {"left", "right"} =>
            \A i \in 1..Len(releases[t]) : releases[t][i].mode = JNI_ABORT

\* A left-frame delivery has released its four arrays.
C18_Witness ==
    \E t \in Threads :
        /\ call[t].entry = "left" /\ call[t].outcome = "delivered"
        /\ Len(releases[t]) = 4
        /\ \A i \in 1..Len(releases[t]) : releases[t][i].mode = JNI_ABORT

\* C19: a slot changes only in a registration call on its own channel, which
\* leaves the other slots as they were; delivery steps, relay calls and the
\* load and unload hooks change no slot.
C19_SlotChangesOnlyByOwnSetter ==
    [][ \A channel \in Channels :
          resolve(channel)' # resolve(channel) =>
              /\ sets' = sets + 1
              /\ lastSet'[channel] = resolve(channel)'
              /\ \A other \in Channels \ {channel} :
                    /\ resolve(other)' = resolve(other)
                    /\ lastSet'[other] = lastSet[other] ]_vars

\* Two channels were registered with different addresses, the third never;
\* a delivery has been invoked and a relay call has been made since, and all
\* three slots are as registered.
C19_Witness ==
    /\ sets = 2
    /\ g_leftFrameCallback # nullptr /\ g_rightFrameCallback # nullptr
    /\ g_leftFrameCallback # g_rightFrameCallback
    /\ g_errorCallback = nullptr
    /\ invocations # <<>>
    /\ relay.returns # "nothing"
====
